---- MODULE Spec2Model ----
(***************************************************************************)
(* The RPC gateway client of tw-client: rpc.EnhancedClient (doRequest,     *)
(* GetLatestBlockNumber, GetBlockByNumber, HealthCheck), the typed errors  *)
(* of pkg/errors and the JSON envelopes of package models.                 *)
(*                                                                         *)
(* One behaviour of Spec is the construction of a client followed by one   *)
(* invocation of one operation.  Time is counted in whole units (seconds). *)
(* SilentSpec is Spec with an upstream that never answers and a runtime    *)
(* that runs what can run.  StartupSpec is main up to the start of the     *)
(* server, ServerSpec the handler of a request for a block, ErrorsSpec a   *)
(* typed error that WithData is called on, LookupSpec one call of          *)
(* getChainNameFromNetworkID.                                              *)
(*                                                                         *)
(* A Go error is the sequence of its layers, outermost first: a wrapping   *)
(* error is a layer put in front of its cause, Unwrap is Tail, nil is the  *)
(* empty sequence.  A formatted message is the tuple of its pieces.        *)
(* A string the code takes apart or an upstream chooses (block numbers,    *)
(* network ids) is the sequence of its characters; a string literal of the *)
(* code that is only passed on is a TLA+ string.                           *)
(*                                                                         *)
(* A response body is kept as what a JSON decoder can tell about it: is it *)
(* a JSON object at all, and what are its "result" and "error" members.    *)
(* The members "jsonrpc" and "id" are declared alike by every target       *)
(* shape, so a body that mistypes them is one of the bodies that do not    *)
(* decode (syntax "garbage").  The endpoint URL is taken to parse, so that  *)
(* http.NewRequestWithContext succeeds.                                    *)
(***************************************************************************)
EXTENDS Integers, Sequences, FiniteSets, TLC

VARIABLES
    rpcURL,         \* c.rpcURL of the client
    timeoutArg,     \* the timeout NewEnhancedClient was given
    timeout,        \* c.timeout of the client
    op,             \* the operation invoked: "none", "latest", "block", "health"
    blockNumber,    \* the argument of GetBlockByNumber
    pc,             \* the caller: "idle", "doRequest", "select", "done"
    now,            \* time elapsed
    dpc,            \* doRequest: "none", "spawned", "do", "classify", "finished"
    deadline,       \* the deadline of doRequest's ctx
    doOut,          \* what httpClient.Do and io.ReadAll came back with
    sent,           \* the HTTP requests handed to httpClient.Do
    response,       \* the response holder doRequest decodes into
    resultChan,     \* doRequestWithContext's channel
    checkDeadline,  \* the deadline of HealthCheck's checkCtx
    ctxCancelled,   \* the context given to HealthCheck was cancelled
    ret,            \* what the operation returned
    envTimeout,     \* the environment's TIMEOUT_SECONDS ("" when unset)
    envURL,         \* the environment's RPC_URL ("" when unset)
    mainPc,         \* main: "none", "start", "fatal", "started"
    appErr,         \* an *AppError that WithData is called on
    attached,       \* the keys appErr had at first and those passed since
    calls,          \* the number of WithData calls on appErr
    blockNumberParam, \* the :number parameter of a request for a block
    forwarded,      \* the arguments the handler gave s.client.GetBlockByNumber
    ginCtx,         \* the request's gin.Context: Errors, status and body written
    route,          \* the route of the request: "block" or "latest"
    srvPc,          \* the request's place in the handler chain
    recorded,       \* the status MetricsMiddleware recorded for the request
    log,            \* the logger package's log: 0 is nil, n the n-th logger made
    once,           \* the logger package's once: "fresh", "running" or "done"
    callers,        \* the goroutines calling Init, InitWithRotation, GetLogger
    constructions,  \* the loggers zap.New made: the caller and the core
    lookupArg,      \* the argument of getChainNameFromNetworkID
    lookupRet       \* what getChainNameFromNetworkID returned

\* what NewEnhancedClient was given
built == <<rpcURL, timeoutArg>>

\* the client and one invocation of one of its operations
client == <<built, timeout, op, blockNumber, pc, now, dpc, deadline, doOut, sent,
            response, resultChan, checkDeadline, ctxCancelled, ret>>

\* the logger package and the goroutines that call it
logging == <<log, once, callers, constructions>>

\* the variables no operation of the client assigns
outside == <<envTimeout, envURL, mainPc, appErr, attached, calls,
             blockNumberParam, forwarded, ginCtx, route, srvPc, recorded,
             logging, lookupArg, lookupRet>>

vars == <<client, outside>>

(***************************************************************************)
(* Bounds of the model.                                                    *)
(***************************************************************************)
\* largest timeout handed to NewEnhancedClient (inputs are -1..MaxTimeout)
MaxTimeout == 3
\* the clock stops advancing here; it is past every deadline of the model
MaxClock == 11
\* longest network id handed to getChainNameFromNetworkID on its own
MaxIDLen == 5
\* longest value of TIMEOUT_SECONDS
MaxEnvLen == 3
\* most WithData calls on one error
MaxCalls == 3
\* longest :number parameter made of ParamChars
MaxParamLen == 3

\* the number of goroutines that call the logger package
MaxCallers == 3

(***************************************************************************)
(* pkg/errors                                                              *)
(***************************************************************************)
ErrTypeInternal == "internal_error"
ErrTypeTimeout == "timeout_error"
ErrTypeNotFound == "not_found_error"
ErrorTypeBlockchain == "blockchain_error"
ErrTypeValidation == "validation_error"

\* the nil error
NoError == <<>>

\* a nil map[string]interface{} (and an empty one)
NoData == <<>>

\* an error that is not an *AppError (errors.New, fmt.Errorf, ctx.Err())
PlainError(msg) ==
    << [app |-> FALSE, Type |-> "", Message |-> msg, Data |-> NoData] >>

NewAppError(errType, message, err) ==
    << [app |-> TRUE, Type |-> errType, Message |-> message, Data |-> NoData] >>
        \o err

Wrap(err, errType, message) == NewAppError(errType, message, err)

NewInternalError(message, err) == NewAppError(ErrTypeInternal, message, err)

NewBlockchainError(message, err) == NewAppError(ErrorTypeBlockchain, message, err)

NewTimeoutError(message, err) == NewAppError(ErrTypeTimeout, message, err)

NewNotFoundError(message, err) == NewAppError(ErrTypeNotFound, message, err)

\* merge of two maps, the keys of data winning
MergeData(old, data) ==
    [k \in DOMAIN old \cup DOMAIN data |->
        IF k \in DOMAIN data THEN data[k] ELSE old[k]]

\* WithData had it put the map it is given in the place of e.Data
WithData_Replaces(e, data) ==
    << [e[1] EXCEPT !.Data = data] >> \o Tail(e)

\* (e *AppError).WithData: e is a non-nil error whose first layer is the AppError
WithData(e, data) ==
    << [e[1] EXCEPT !.Data = MergeData(e[1].Data, data)] >> \o Tail(e)

Unwrap(e) == IF e = NoError THEN NoError ELSE Tail(e)

IsAppError(e) == e # NoError /\ e[1].app

IsType(e, errType) == IsAppError(e) /\ e[1].Type = errType

\* err.Error(): the pieces of the text, the cause after " - "
RECURSIVE Error(_)
Error(e) ==
    IF e = NoError THEN <<>>
    ELSE IF ~e[1].app THEN e[1].Message
    ELSE IF Tail(e) # NoError
    THEN <<e[1].Type, ": ">> \o e[1].Message \o <<" - ">> \o Error(Tail(e))
    ELSE <<e[1].Type, ": ">> \o e[1].Message

(***************************************************************************)
(* models: the request envelope and its serialization                      *)
(***************************************************************************)
RPCRequest(method, params) ==
    [JSONRPC |-> "2.0", Method |-> method, Params |-> params, ID |-> 1]

\* json.Marshal of an RPCRequest: the JSON object as a map from key to value.
\* Params is tagged `json:"params,omitempty"`: a slice of length 0 is left out.
MarshalRequest(r) ==
    LET always == [k \in {"jsonrpc", "method", "id"} |->
                      CASE k = "jsonrpc" -> r.JSONRPC
                        [] k = "method"  -> r.Method
                        [] k = "id"      -> r.ID]
    IN  IF Len(r.Params) = 0
        THEN always
        ELSE [k \in {"jsonrpc", "method", "id", "params"} |->
                 IF k = "params" THEN r.Params ELSE always[k]]

(***************************************************************************)
(* Response bodies                                                         *)
(***************************************************************************)
\* the "result" member of a body: missing, null, a JSON string v, a JSON
\* object that is a block record whose number is v, or a JSON number
EmptyString == <<>>
Hex134e82a == <<"0", "x", "1", "3", "4", "e", "8", "2", "a">>
HexZero == <<"0", "x", "0">>
Latest == <<"l", "a", "t", "e", "s", "t">>
Id1 == <<"1">>
Id137 == <<"1", "3", "7">>
Id99 == <<"9", "9">>
Id2018 == <<"2", "0", "1", "8">>
Id20180 == <<"2", "0", "1", "8", "0">>

ResultAbsent == [t |-> "absent", v |-> EmptyString]
ResultNull == [t |-> "null", v |-> EmptyString]
ResultStr(s) == [t |-> "string", v |-> s]
ResultObj(n) == [t |-> "object", v |-> n]
ResultNum == [t |-> "number", v |-> EmptyString]

\* strings an upstream puts in "result": hex block numbers and network ids
ResultStrings == {EmptyString, Hex134e82a, Id1, Id137, Id99, Id2018, Id20180}

\* block numbers of the block records an upstream returns
BlockNumbers == {Hex134e82a, HexZero}

\* block identifiers GetBlockByNumber is called with
BlockIdentifiers == {Hex134e82a, Latest}

ResultValues ==
    {ResultAbsent, ResultNull, ResultNum}
        \cup {ResultStr(s) : s \in ResultStrings}
        \cup {ResultObj(n) : n \in BlockNumbers}

\* the "error" member of a body: missing, null, a JSON string, or a JSON
\* object whose "code" is missing, an integer or a string and whose
\* "message" is missing, a string or a number
ErrorMember(t, codeT, code, msgT, msg) ==
    [t |-> t, codeT |-> codeT, code |-> code, msgT |-> msgT, msg |-> msg]

ErrorAbsent == ErrorMember("absent", "absent", 0, "absent", "")
ErrorNull == ErrorMember("null", "absent", 0, "absent", "")
ErrorString == ErrorMember("string", "absent", 0, "absent", "")
ErrorObject(codeT, code, msgT, msg) == ErrorMember("object", codeT, code, msgT, msg)

ErrorValues ==
    {ErrorAbsent, ErrorNull, ErrorString,
     ErrorObject("int", -32000, "string", "header not found"),
     ErrorObject("int", -32000, "absent", ""),
     ErrorObject("int", -32000, "number", ""),
     ErrorObject("int", 0, "string", "ok"),
     ErrorObject("absent", 0, "string", "no code"),
     ErrorObject("string", 0, "string", "code is text")}

\* a body that is not a JSON object of the envelope's types
Garbage == [syntax |-> "garbage", result |-> ResultAbsent, error |-> ErrorAbsent]

Bodies ==
    {Garbage} \cup
    {[syntax |-> "object", result |-> r, error |-> e] :
        r \in ResultValues, e \in ErrorValues}

\* HTTP statuses an upstream answers with
Statuses == {200, 404, 500}

(***************************************************************************)
(* models: the response shapes and encoding/json's Unmarshal into them     *)
(***************************************************************************)
\* *models.Block
NilBlock == [isNil |-> TRUE, Number |-> EmptyString, Hash |-> EmptyString]
Block(n) == [isNil |-> FALSE, Number |-> n, Hash |-> <<"#">> \o n]

\* the *struct{Code int; Message string} of checkNetVersion's response
NilRPCError == [isNil |-> TRUE, Code |-> 0, Message |-> ""]
RPCErrorPtr(code, msg) == [isNil |-> FALSE, Code |-> code, Message |-> msg]

\* the zero value of a response holder; Result is the string of
\* BlockNumberResponse and of checkNetVersion's struct, Block the *Block of
\* BlockResponse, Error the pointer of checkNetVersion's struct
ZeroResponse == [Result |-> EmptyString, Block |-> NilBlock, Error |-> NilRPCError]

\* does the "error" member decode into struct{Code int; Message string}
ErrorObjectDecodes(e) ==
    /\ e.t = "object"
    /\ e.codeT \in {"absent", "int"}
    /\ e.msgT \in {"absent", "string"}

\* json.Unmarshal(bodyBytes, response) for the three holders doRequest is
\* given: ok is err == nil
Unmarshal(target, body) ==
    IF body.syntax # "object" THEN [ok |-> FALSE, v |-> ZeroResponse]
    ELSE CASE target = "BlockNumberResponse" ->
                  [ok |-> body.result.t \in {"absent", "null", "string"},
                   v  |-> [ZeroResponse EXCEPT !.Result =
                              IF body.result.t = "string" THEN body.result.v
                              ELSE EmptyString]]
           [] target = "BlockResponse" ->
                  [ok |-> body.result.t \in {"absent", "null", "object"},
                   v  |-> [ZeroResponse EXCEPT !.Block =
                              IF body.result.t = "object"
                              THEN Block(body.result.v) ELSE NilBlock]]
           [] target = "netVersion" ->
                  [ok |-> /\ body.result.t \in {"absent", "null", "string"}
                          /\ \/ body.error.t \in {"absent", "null"}
                             \/ ErrorObjectDecodes(body.error),
                   v  |-> [ZeroResponse EXCEPT
                              !.Result = IF body.result.t = "string"
                                         THEN body.result.v ELSE EmptyString,
                              !.Error = IF body.error.t = "object"
                                        THEN RPCErrorPtr(body.error.code, body.error.msg)
                                        ELSE NilRPCError]]

\* json.Unmarshal(bodyBytes, &rpcError) with rpcError a models.RPCErrorResponse
UnmarshalRPCErrorResponse(body) ==
    IF body.syntax # "object" THEN [ok |-> FALSE, Code |-> 0, Message |-> ""]
    ELSE IF body.error.t \in {"absent", "null"}
         THEN [ok |-> TRUE, Code |-> 0, Message |-> ""]
         ELSE [ok |-> ErrorObjectDecodes(body.error),
               Code |-> body.error.code, Message |-> body.error.msg]

(***************************************************************************)
(* rpc.EnhancedClient                                                      *)
(***************************************************************************)
DefaultTimeout == 10

HealthTimeout == 5

\* the capacity of the channel doRequestWithContext makes
resultChanCap == 1

\* the endpoints a client is built for
URLs == {"https://polygon-rpc.com/", "http://localhost:8545"}

\* NewEnhancedClient had it kept the timeout it was given
NewEnhancedClient_KeepsInput(t) == t

\* NewEnhancedClient: the timeout the client keeps
NewEnhancedClient(t) == IF t <= 0 THEN DefaultTimeout ELSE t

\* what c.httpClient.Do and io.ReadAll came back with
NoOutcome == [kind |-> "none", status |-> 0, body |-> Garbage, readOK |-> TRUE,
              cause |-> ""]
HTTPResponse(status, body, readOK) ==
    [kind |-> "response", status |-> status, body |-> body, readOK |-> readOK,
     cause |-> ""]
TransportError(cause) ==
    [kind |-> "error", status |-> 0, body |-> Garbage, readOK |-> TRUE,
     cause |-> cause]

\* the request doRequest builds: http.NewRequestWithContext and Header.Set
HTTPRequest(request) ==
    [Method |-> "POST", URL |-> rpcURL, ContentType |-> "application/json",
     Body |-> MarshalRequest(request)]

\* TransportFailureError had the deadline not been looked at
TransportFailureError_AlwaysInternal(out, ctxExpired) ==
    NewInternalError(<<"Failed to execute HTTP request">>, PlainError(<<out.cause>>))

\* doRequest when httpClient.Do returned an error: ctxExpired is
\* ctx.Err() == context.DeadlineExceeded at the moment it is read
TransportFailureError(out, ctxExpired) ==
    IF ctxExpired
    THEN NewTimeoutError(<<"RPC request timed out">>, PlainError(<<out.cause>>))
    ELSE NewInternalError(<<"Failed to execute HTTP request">>,
                          PlainError(<<out.cause>>))

\* NonOKStatusError had the status and the body not been attached
NonOKStatusError_NoData(out) ==
    NewBlockchainError(<<"RPC server returned non-200 response: ",
                         ToString(out.status)>>, NoError)

\* doRequest when resp.StatusCode != http.StatusOK
NonOKStatusError(out) ==
    WithData(
        NewBlockchainError(<<"RPC server returned non-200 response: ",
                             ToString(out.status)>>, NoError),
        ("status_code" :> out.status) @@ ("response" :> out.body))

\* EmbeddedRPCError had the second decode been left out
EmbeddedRPCError_Unchecked(body) == NoError

\* doRequest's check for an RPC error response, after the body decoded into
\* the caller's holder
EmbeddedRPCError(body) ==
    LET rpcError == UnmarshalRPCErrorResponse(body)
    IN  IF rpcError.ok /\ rpcError.Code # 0
        THEN WithData(
                 NewBlockchainError(<<"RPC error: ", rpcError.Message,
                                      " (code: ", ToString(rpcError.Code), ")">>,
                                    NoError),
                 ("error_code" :> rpcError.Code)
                     @@ ("error_message" :> rpcError.Message))
        ELSE NoError

\* doRequest from the return of httpClient.Do on: the error it returns
DoRequestError(target, out, ctxExpired) ==
    IF out.kind = "error"
    THEN TransportFailureError(out, ctxExpired)
    ELSE IF ~out.readOK
    THEN NewInternalError(<<"Failed to read response body">>,
                          PlainError(<<"unexpected EOF">>))
    ELSE IF out.status # 200
    THEN NonOKStatusError(out)
    ELSE IF ~Unmarshal(target, out.body).ok
    THEN NewInternalError(<<"Failed to unmarshal JSON response">>,
                          PlainError(<<"json: cannot unmarshal">>))
    ELSE EmbeddedRPCError(out.body)

\* what doRequest leaves in the caller's response holder
DoRequestResponse(target, out) ==
    IF out.kind = "response" /\ out.readOK /\ out.status = 200
    THEN Unmarshal(target, out.body).v
    ELSE ZeroResponse

\* the values an operation returns: GetLatestBlockNumber's (str, err),
\* GetBlockByNumber's (block, err), HealthCheck's (healthy, description, err)
Return(str, block, healthy, description, err) ==
    [str |-> str, block |-> block, healthy |-> healthy,
     description |-> description, err |-> err]

\* the value of a variable that waits for a function's return
NotReturned == "not returned"

NoReturn == Return(EmptyString, NilBlock, FALSE, <<>>, NoError)

\* GetLatestBlockNumber had it returned the digits without their "0x"
GetLatestBlockNumber_StripsPrefix(err, resp) ==
    IF err # NoError
    THEN Return(EmptyString, NilBlock, FALSE, <<>>,
                NewBlockchainError(<<"Failed to get latest block number">>, err))
    ELSE Return(IF Len(resp.Result) >= 2 /\ SubSeq(resp.Result, 1, 2) = <<"0", "x">>
                THEN SubSeq(resp.Result, 3, Len(resp.Result))
                ELSE resp.Result,
                NilBlock, FALSE, <<>>, NoError)

\* GetLatestBlockNumber after doRequest returned err, having filled resp
GetLatestBlockNumber(err, resp) ==
    IF err # NoError
    THEN Return(EmptyString, NilBlock, FALSE, <<>>,
                NewBlockchainError(<<"Failed to get latest block number">>, err))
    ELSE Return(resp.Result, NilBlock, FALSE, <<>>, NoError)

\* GetBlockByNumber had it returned response.Result without the nil check
GetBlockByNumber_NoNilCheck(bn, err, resp) ==
    IF err # NoError
    THEN Return(EmptyString, NilBlock, FALSE, <<>>,
                NewBlockchainError(<<"Failed to get block data for block ", bn>>, err))
    ELSE Return(EmptyString, resp.Block, FALSE, <<>>, NoError)

\* GetBlockByNumber had the error of doRequest not been kept as the cause
GetBlockByNumber_DropsCause(bn, err, resp) ==
    IF err # NoError
    THEN Return(EmptyString, NilBlock, FALSE, <<>>,
                NewBlockchainError(<<"Failed to get block data for block ", bn>>,
                                   NoError))
    ELSE IF resp.Block.isNil
    THEN Return(EmptyString, NilBlock, FALSE, <<>>,
                WithData(NewNotFoundError(<<"Block not found">>, NoError),
                         "block_number" :> bn))
    ELSE Return(EmptyString, resp.Block, FALSE, <<>>, NoError)

\* GetBlockByNumber had a nil result been reported without the identifier
GetBlockByNumber_NotFoundNoData(bn, err, resp) ==
    IF err # NoError
    THEN Return(EmptyString, NilBlock, FALSE, <<>>,
                NewBlockchainError(<<"Failed to get block data for block ", bn>>, err))
    ELSE IF resp.Block.isNil
    THEN Return(EmptyString, NilBlock, FALSE, <<>>,
                NewNotFoundError(<<"Block not found">>, NoError))
    ELSE Return(EmptyString, resp.Block, FALSE, <<>>, NoError)

\* getBlockByNumber after doRequest returned err, having filled resp
GetBlockByNumber(bn, err, resp) ==
    IF err # NoError
    THEN Return(EmptyString, NilBlock, FALSE, <<>>,
                NewBlockchainError(<<"Failed to get block data for block ", bn>>, err))
    ELSE IF resp.Block.isNil
    THEN Return(EmptyString, NilBlock, FALSE, <<>>,
                WithData(NewNotFoundError(<<"Block not found">>, NoError),
                         "block_number" :> bn))
    ELSE Return(EmptyString, resp.Block, FALSE, <<>>, NoError)

\* strings.HasPrefix
HasPrefix(s, prefix) ==
    /\ Len(s) >= Len(prefix)
    /\ SubSeq(s, 1, Len(prefix)) = prefix

\* the network ids getChainNameFromNetworkID has a case for
KnownNetworkIDs ==
    {<<"1">>, <<"3">>, <<"4">>, <<"5">>, <<"4", "2">>, <<"5", "6">>,
     <<"1", "3", "7">>, <<"4", "2", "1", "6", "1">>, <<"1", "0">>}

\* getChainNameFromNetworkID had its default case returned "" at once
getChainNameFromNetworkID_NoClassic(networkID) ==
    CASE networkID = <<"1">> -> "Ethereum Mainnet"
      [] networkID = <<"3">> -> "Ropsten Testnet"
      [] networkID = <<"4">> -> "Rinkeby Testnet"
      [] networkID = <<"5">> -> "Goerli Testnet"
      [] networkID = <<"4", "2">> -> "Kovan Testnet"
      [] networkID = <<"5", "6">> -> "Binance Smart Chain"
      [] networkID = <<"1", "3", "7">> -> "Polygon Mainnet"
      [] networkID = <<"4", "2", "1", "6", "1">> -> "Arbitrum One"
      [] networkID = <<"1", "0">> -> "Optimism"
      [] OTHER -> ""

\* getChainNameFromNetworkID had the case "137" been missing
getChainNameFromNetworkID_NoPolygon(networkID) ==
    CASE networkID = <<"1">> -> "Ethereum Mainnet"
      [] networkID = <<"5", "6">> -> "Binance Smart Chain"
      [] OTHER -> ""

getChainNameFromNetworkID(networkID) ==
    CASE networkID = <<"1">> -> "Ethereum Mainnet"
      [] networkID = <<"3">> -> "Ropsten Testnet"
      [] networkID = <<"4">> -> "Rinkeby Testnet"
      [] networkID = <<"5">> -> "Goerli Testnet"
      [] networkID = <<"4", "2">> -> "Kovan Testnet"
      [] networkID = <<"5", "6">> -> "Binance Smart Chain"
      [] networkID = <<"1", "3", "7">> -> "Polygon Mainnet"
      [] networkID = <<"4", "2", "1", "6", "1">> -> "Arbitrum One"
      [] networkID = <<"1", "0">> -> "Optimism"
      [] OTHER -> IF HasPrefix(networkID, <<"2", "0", "1", "8">>)
                  THEN "Ethereum Classic"
                  ELSE ""

\* checkNetVersion after doRequestWithContext returned err, having filled
\* resp: (healthy, details, err), details being networkId and chainName
checkNetVersion(err, resp) ==
    IF err # NoError
    THEN [healthy |-> FALSE, networkId |-> EmptyString, chainName |-> "", err |-> err]
    ELSE IF ~resp.Error.isNil
    THEN [healthy |-> FALSE, networkId |-> EmptyString, chainName |-> "",
          err |-> PlainError(<<"RPC error: ", resp.Error.Message, " (code: ",
                               ToString(resp.Error.Code), ")">>)]
    ELSE IF resp.Result = EmptyString
    THEN [healthy |-> FALSE, networkId |-> EmptyString, chainName |-> "",
          err |-> PlainError(<<"empty network ID">>)]
    ELSE [healthy |-> TRUE, networkId |-> resp.Result,
          chainName |-> getChainNameFromNetworkID(resp.Result), err |-> NoError]

\* HealthCheck had a failed check been reported without its error
HealthCheck_SwallowsError(err, resp) ==
    LET check == checkNetVersion(err, resp)
    IN  IF check.err # NoError
        THEN Return(EmptyString, NilBlock, FALSE,
                    <<"Unhealthy RPC connection">>, NoError)
        ELSE Return(EmptyString, NilBlock, TRUE,
                    <<"Connected to RPC endpoint (Network ID: ",
                      check.networkId, ")">>, NoError)

\* HealthCheck after doRequestWithContext returned err, having filled resp
HealthCheck(err, resp) ==
    LET check == checkNetVersion(err, resp)
    IN  IF check.err # NoError
        THEN Return(EmptyString, NilBlock, FALSE,
                    <<"Failed to connect to RPC endpoint">>, check.err)
        ELSE IF check.healthy
        THEN IF check.chainName # ""
             THEN Return(EmptyString, NilBlock, TRUE,
                         <<"Connected to ", check.chainName, " (Network ID: ",
                           check.networkId, ")">>, NoError)
             ELSE Return(EmptyString, NilBlock, TRUE,
                         <<"Connected to RPC endpoint (Network ID: ",
                           check.networkId, ")">>, NoError)
        ELSE Return(EmptyString, NilBlock, FALSE,
                    <<"Unhealthy RPC connection">>, NoError)

\* the holder each operation hands to doRequest
Target(o) ==
    CASE o = "latest" -> "BlockNumberResponse"
      [] o = "block"  -> "BlockResponse"
      [] OTHER        -> "netVersion"

\* ctx.Err() of HealthCheck's checkCtx once it is done
ContextCanceled == PlainError(<<"context canceled">>)
DeadlineExceeded == PlainError(<<"context deadline exceeded">>)

(***************************************************************************)
(* The state machine                                                       *)
(***************************************************************************)
\* no operation invoked yet
NoInvocation ==
    /\ op = "none"
    /\ blockNumber = EmptyString
    /\ pc = "idle"
    /\ now = 0
    /\ dpc = "none"
    /\ deadline = 0
    /\ doOut = NoOutcome
    /\ sent = <<>>
    /\ response = ZeroResponse
    /\ resultChan = <<>>
    /\ checkDeadline = 0
    /\ ctxCancelled = FALSE
    /\ ret = NoReturn

\* no client built yet
NoClient ==
    /\ rpcURL = ""
    /\ timeoutArg = 0
    /\ timeout = 0

\* a client just built, no operation invoked yet
ClientInit ==
    /\ rpcURL \in URLs
    /\ timeoutArg \in -1 .. MaxTimeout
    /\ timeout = NewEnhancedClient(timeoutArg)
    /\ NoInvocation

\* main is not what built the client
NoMain ==
    /\ envTimeout = EmptyString
    /\ envURL = ""
    /\ mainPc = "none"

\* WithData not called on its own
NoAppErr ==
    /\ appErr = NoError
    /\ attached = {}
    /\ calls = 0

\* the body of a response nothing was written to
NoBody == [written |-> FALSE]

\* a gin.Context no handler has written to; c.Writer.Status() is 200 until
\* a status is written
FreshContext == [Errors |-> <<>>, Status |-> 200, Body |-> NoBody, Writes |-> 0]

\* no request is being served
NoRequest ==
    /\ blockNumberParam = EmptyString
    /\ forwarded = <<>>
    /\ ginCtx = FreshContext
    /\ route = "none"
    /\ srvPc = "none"
    /\ recorded = NotReturned

\* the logger package is not in use
NoLogging ==
    /\ log = 0
    /\ once = "fresh"
    /\ callers = <<>>
    /\ constructions = <<>>

\* getChainNameFromNetworkID not called on its own
LookupIdle ==
    /\ lookupArg = EmptyString
    /\ lookupRet = NotReturned

Init ==
    /\ ClientInit
    /\ NoMain
    /\ NoAppErr
    /\ NoRequest
    /\ NoLogging
    /\ LookupIdle

\* doRequest up to the call of httpClient.Do: the request is marshalled, the
\* context gets its deadline, the POST is handed to the HTTP client
StartDoRequest(request) ==
    /\ dpc' = "do"
    /\ deadline' = now + timeout
    /\ sent' = Append(sent, HTTPRequest(request))

\* GetLatestBlockNumber is called and blocks in doRequest
CallGetLatestBlockNumber ==
    /\ pc = "idle"
    /\ op' = "latest"
    /\ pc' = "doRequest"
    /\ StartDoRequest(RPCRequest("eth_blockNumber", <<>>))
    /\ UNCHANGED <<outside, built, timeout, blockNumber, now, doOut, response, resultChan,
                   checkDeadline, ctxCancelled, ret>>

\* GetBlockByNumber(bn) is called and blocks in doRequest
CallGetBlockByNumber ==
    /\ pc = "idle"
    /\ \E bn \in BlockIdentifiers :
        /\ blockNumber' = bn
        /\ StartDoRequest(RPCRequest("eth_getBlockByNumber", <<bn, TRUE>>))
    /\ op' = "block"
    /\ pc' = "doRequest"
    /\ UNCHANGED <<outside, built, timeout, now, doOut, response, resultChan, checkDeadline,
                   ctxCancelled, ret>>

\* HealthCheck is called: checkCtx gets its deadline, doRequestWithContext
\* makes the channel, spawns the goroutine and waits in the select
CallHealthCheck ==
    /\ pc = "idle"
    /\ op' = "health"
    /\ pc' = "select"
    /\ checkDeadline' = now + HealthTimeout
    /\ dpc' = "spawned"
    /\ UNCHANGED <<outside, built, timeout, blockNumber, now, deadline, doOut, sent, response,
                   resultChan, ctxCancelled, ret>>

\* the spawned goroutine starts running doRequest
GoroutineStart ==
    /\ dpc = "spawned"
    /\ StartDoRequest(RPCRequest("net_version", <<>>))
    /\ UNCHANGED <<outside, built, timeout, op, blockNumber, pc, now, doOut, response,
                   resultChan, checkDeadline, ctxCancelled, ret>>

\* the upstream answers before the deadline of doRequest's ctx
HTTPRespond ==
    /\ dpc = "do"
    /\ now < deadline
    /\ \E out \in {HTTPResponse(s, b, TRUE) : s \in Statuses, b \in Bodies}
                    \cup {HTTPResponse(200, Garbage, FALSE)} :
        doOut' = out
    /\ dpc' = "classify"
    /\ UNCHANGED <<outside, built, timeout, op, blockNumber, pc, now, deadline, sent, response,
                   resultChan, checkDeadline, ctxCancelled, ret>>

\* httpClient.Do fails before the deadline for a reason other than the deadline
HTTPFail ==
    /\ dpc = "do"
    /\ now < deadline
    /\ doOut' = TransportError("connection refused")
    /\ dpc' = "classify"
    /\ UNCHANGED <<outside, built, timeout, op, blockNumber, pc, now, deadline, sent, response,
                   resultChan, checkDeadline, ctxCancelled, ret>>

\* HTTPDeadline had doRequest tried again after a timeout
HTTPDeadline_Retries ==
    /\ dpc = "do"
    /\ now >= deadline
    /\ deadline' = now + timeout
    /\ sent' = Append(sent, sent[Len(sent)])
    /\ UNCHANGED <<outside, built, timeout, op, blockNumber, pc, now, dpc, doOut,
                   response, resultChan, checkDeadline, ctxCancelled, ret>>

\* the deadline of doRequest's ctx expires and aborts httpClient.Do
HTTPDeadline ==
    /\ dpc = "do"
    /\ now >= deadline
    /\ doOut' = TransportError("context deadline exceeded")
    /\ dpc' = "classify"
    /\ UNCHANGED <<outside, built, timeout, op, blockNumber, pc, now, deadline, sent, response,
                   resultChan, checkDeadline, ctxCancelled, ret>>

\* doRequest returns to GetLatestBlockNumber, which returns
ReturnGetLatestBlockNumber ==
    /\ op = "latest"
    /\ dpc = "classify"
    /\ LET err == DoRequestError(Target(op), doOut, now >= deadline)
           resp == DoRequestResponse(Target(op), doOut)
       IN  /\ response' = resp
           /\ ret' = GetLatestBlockNumber(err, resp)
    /\ dpc' = "finished"
    /\ pc' = "done"
    /\ UNCHANGED <<outside, built, timeout, op, blockNumber, now, deadline, doOut, sent,
                   resultChan, checkDeadline, ctxCancelled>>

\* doRequest returns to getBlockByNumber, which returns
ReturnGetBlockByNumber ==
    /\ op = "block"
    /\ dpc = "classify"
    /\ LET err == DoRequestError(Target(op), doOut, now >= deadline)
           resp == DoRequestResponse(Target(op), doOut)
       IN  /\ response' = resp
           /\ ret' = GetBlockByNumber(blockNumber, err, resp)
    /\ dpc' = "finished"
    /\ pc' = "done"
    /\ UNCHANGED <<outside, built, timeout, op, blockNumber, now, deadline, doOut, sent,
                   resultChan, checkDeadline, ctxCancelled>>

\* the send on resultChan had the channel been made without a buffer: it
\* proceeds only while the select waits to receive
SendProceeds_Unbuffered == pc = "select"

\* the send on resultChan proceeds: the buffer has room, or the select waits
\* to receive
SendProceeds == Len(resultChan) < resultChanCap \/ pc = "select"

\* doRequest returns in the goroutine, which sends the error on resultChan
\* and ends
GoroutineSend ==
    /\ op = "health"
    /\ dpc = "classify"
    /\ SendProceeds
    /\ response' = DoRequestResponse(Target(op), doOut)
    /\ resultChan' = Append(resultChan,
                            DoRequestError(Target(op), doOut, now >= deadline))
    /\ dpc' = "finished"
    /\ UNCHANGED <<outside, built, timeout, op, blockNumber, pc, now, deadline, doOut, sent,
                   checkDeadline, ctxCancelled, ret>>

\* the select of doRequestWithContext receives from resultChan; checkNetVersion
\* and HealthCheck run to their return
SelectResult ==
    /\ pc = "select"
    /\ resultChan # <<>>
    /\ ret' = HealthCheck(Head(resultChan), response)
    /\ resultChan' = Tail(resultChan)
    /\ pc' = "done"
    /\ UNCHANGED <<outside, built, timeout, op, blockNumber, now, dpc, deadline, doOut, sent,
                   response, checkDeadline, ctxCancelled>>

\* the select of doRequestWithContext finds checkCtx done and returns ctx.Err()
SelectDone ==
    /\ pc = "select"
    /\ ctxCancelled \/ now >= checkDeadline
    /\ ret' = HealthCheck(IF ctxCancelled THEN ContextCanceled ELSE DeadlineExceeded,
                          ZeroResponse)
    /\ pc' = "done"
    /\ UNCHANGED <<outside, built, timeout, op, blockNumber, now, dpc, deadline, doOut, sent,
                   response, resultChan, checkDeadline, ctxCancelled>>

\* the caller of HealthCheck cancels its context before checkCtx expires
CancelCaller ==
    /\ pc = "select"
    /\ ~ctxCancelled
    /\ now < checkDeadline
    /\ ctxCancelled' = TRUE
    /\ UNCHANGED <<outside, built, timeout, op, blockNumber, pc, now, dpc, deadline, doOut,
                   sent, response, resultChan, checkDeadline, ret>>

\* a unit of time passes while the caller or doRequest is at work; once
\* httpClient.Do has returned, only its error path reads the clock
Tick ==
    /\ now < MaxClock
    /\ \/ pc = "select"
       \/ dpc \in {"spawned", "do"}
       \/ dpc = "classify" /\ doOut.kind = "error"
    /\ now' = now + 1
    /\ UNCHANGED <<outside, built, timeout, op, blockNumber, pc, dpc, deadline, doOut, sent,
                   response, resultChan, checkDeadline, ctxCancelled, ret>>

Next ==
    \/ CallGetLatestBlockNumber
    \/ CallGetBlockByNumber
    \/ CallHealthCheck
    \/ GoroutineStart
    \/ HTTPRespond
    \/ HTTPFail
    \/ HTTPDeadline
    \/ ReturnGetLatestBlockNumber
    \/ ReturnGetBlockByNumber
    \/ GoroutineSend
    \/ SelectResult
    \/ SelectDone
    \/ CancelCaller
    \/ Tick

Spec == Init /\ [][Next]_vars

\* An upstream that never answers: every step but HTTPRespond.
SilentNext ==
    \/ CallGetLatestBlockNumber
    \/ CallGetBlockByNumber
    \/ CallHealthCheck
    \/ GoroutineStart
    \/ HTTPFail
    \/ HTTPDeadline
    \/ ReturnGetLatestBlockNumber
    \/ ReturnGetBlockByNumber
    \/ GoroutineSend
    \/ SelectResult
    \/ SelectDone
    \/ CancelCaller
    \/ Tick

\* The runtime runs every goroutine that can run, time passes and the
\* timers of the contexts fire.  Nothing obliges a connection to fail, a
\* caller to invoke an operation or to cancel its context.
SilentSpec ==
    /\ Init
    /\ [][SilentNext]_vars
    /\ WF_vars(GoroutineStart)
    /\ WF_vars(HTTPDeadline)
    /\ WF_vars(ReturnGetLatestBlockNumber)
    /\ WF_vars(ReturnGetBlockByNumber)
    /\ WF_vars(GoroutineSend)
    /\ WF_vars(SelectResult)
    /\ WF_vars(SelectDone)
    /\ WF_vars(Tick)

(***************************************************************************)
(* getChainNameFromNetworkID on its own                                    *)
(***************************************************************************)
\* the characters of the ids the lookup has a case for
IDChars == {"0", "1", "2", "3", "4", "5", "6", "7", "8"}

\* the strings of at most n characters of alphabet
Strings(alphabet, n) == UNION {[1 .. k -> alphabet] : k \in 0 .. n}

NetworkIDs == Strings(IDChars, MaxIDLen)

LookupInit ==
    /\ NoClient
    /\ NoInvocation
    /\ NoMain
    /\ NoAppErr
    /\ NoRequest
    /\ NoLogging
    /\ lookupArg \in NetworkIDs
    /\ lookupRet = NotReturned

\* getChainNameFromNetworkID(lookupArg) returns
LookupChainName ==
    /\ lookupRet = NotReturned
    /\ lookupRet' = getChainNameFromNetworkID(lookupArg)
    /\ UNCHANGED <<client, envTimeout, envURL, mainPc, appErr, attached, calls,
                   blockNumberParam, forwarded, ginCtx, route, srvPc, recorded,
                   logging, lookupArg>>

LookupNext == LookupChainName

LookupSpec == LookupInit /\ [][LookupNext]_vars

(***************************************************************************)
(* main: the configuration read from the environment                       *)
(***************************************************************************)
DigitChars == {"0", "1", "2", "3", "4", "5", "6", "7", "8", "9"}

DigitValue(c) == CHOOSE d \in 0 .. 9 : ToString(d) = c

\* the number a string of decimal digits writes
RECURSIVE DecimalValue(_)
DecimalValue(s) ==
    IF s = <<>> THEN 0
    ELSE 10 * DecimalValue(SubSeq(s, 1, Len(s) - 1)) + DigitValue(s[Len(s)])

\* strconv.Atoi: an optional sign, then decimal digits, at least one
Atoi(s) ==
    LET signed == Len(s) > 0 /\ s[1] \in {"+", "-"}
        digits == IF signed THEN Tail(s) ELSE s
    IN  IF digits = <<>> \/ \E i \in 1 .. Len(digits) : digits[i] \notin DigitChars
        THEN [ok |-> FALSE, n |-> 0]
        ELSE [ok |-> TRUE,
              n |-> IF s[1] = "-" THEN 0 - DecimalValue(digits)
                    ELSE DecimalValue(digits)]

\* getEnv, given what os.Getenv returned
getEnv(value, defaultValue) == IF Len(value) = 0 THEN defaultValue ELSE value

\* the characters of the values of TIMEOUT_SECONDS
EnvChars == {"0", "1", "2", "-", "+", "s"}

StartupInit ==
    /\ NoClient
    /\ NoInvocation
    /\ NoAppErr
    /\ NoRequest
    /\ NoLogging
    /\ LookupIdle
    /\ envTimeout \in Strings(EnvChars, MaxEnvLen)
    /\ envURL \in {"", "http://localhost:8545"}
    /\ mainPc = "start"

\* main runs up to srv.Start(), or to the logger.Fatal that ends the process
Main ==
    /\ mainPc = "start"
    /\ LET url == getEnv(envURL, "https://polygon-rpc.com/")
           timeoutStr == getEnv(envTimeout, <<"1", "0">>)
           parsed == Atoi(timeoutStr)
       IN  IF ~parsed.ok
           THEN /\ mainPc' = "fatal"
                /\ UNCHANGED <<built, timeout>>
           ELSE /\ rpcURL' = url
                /\ timeoutArg' = parsed.n
                /\ timeout' = NewEnhancedClient(parsed.n)
                /\ mainPc' = "started"
    /\ UNCHANGED <<op, blockNumber, pc, now, dpc, deadline, doOut, sent,
                   response, resultChan, checkDeadline, ctxCancelled, ret,
                   envTimeout, envURL, appErr, attached, calls,
                   blockNumberParam, forwarded, ginCtx, route, srvPc, recorded,
                   logging, lookupArg, lookupRet>>

StartupNext == Main

StartupSpec == StartupInit /\ [][StartupNext]_vars

(***************************************************************************)
(* pkg/errors: WithData called again and again on one error                *)
(***************************************************************************)
DataKeys == {"status_code", "response", "block_number"}

DataValues == {"404", "0x1"}

\* the maps handed to WithData
DataMaps == UNION {[keys -> DataValues] : keys \in SUBSET DataKeys}

\* typed errors as the constructors make them, and one built with its Data set
TypedErrors ==
    {NewAppError(ErrTypeValidation, <<"Invalid block number format">>, NoError),
     NewBlockchainError(<<"Failed to get block data">>,
                        PlainError(<<"connection refused">>)),
     NewNotFoundError(<<"Block not found">>, NoError),
     WithData(NewInternalError(<<"Failed to read response body">>,
                               PlainError(<<"unexpected EOF">>)),
              [k \in {"status_code"} |-> "404"])}

ErrorsInit ==
    /\ NoClient
    /\ NoInvocation
    /\ NoMain
    /\ NoRequest
    /\ NoLogging
    /\ LookupIdle
    /\ appErr \in TypedErrors
    /\ attached = DOMAIN appErr[1].Data
    /\ calls = 0

\* appErr.WithData(data) is called and returns
CallWithData ==
    /\ calls < MaxCalls
    /\ \E data \in DataMaps :
        /\ appErr' = WithData(appErr, data)
        /\ attached' = attached \cup DOMAIN data
    /\ calls' = calls + 1
    /\ UNCHANGED <<client, envTimeout, envURL, mainPc, blockNumberParam,
                   forwarded, ginCtx, route, srvPc, recorded, logging, lookupArg,
                   lookupRet>>

ErrorsNext == CallWithData

ErrorsSpec == ErrorsInit /\ [][ErrorsNext]_vars

(***************************************************************************)
(* server: the handler of GET /api/v1/block/:number                        *)
(***************************************************************************)
\* validateAndFormatBlockNumber: (string, error)
validateAndFormatBlockNumber(number) ==
    IF number = Latest
    THEN [s |-> Latest, err |-> NoError]
    ELSE IF Len(number) > 0
    THEN IF number[1] # "0" \/ (Len(number) > 1 /\ number[2] # "x")
         THEN LET stripped ==
                      IF /\ Len(number) > 2
                         /\ number[1] = "0"
                         /\ number[2] = "x"
                      THEN SubSeq(number, 3, Len(number))
                      ELSE number
              IN  [s |-> <<"0", "x">> \o stripped, err |-> NoError]
         ELSE [s |-> number, err |-> NoError]
    ELSE [s |-> EmptyString,
          err |-> NewAppError(ErrTypeValidation,
                              <<"Invalid block number format">>, NoError)]

\* what s.client.GetBlockByNumber(bn) can return: the block, not found, or
\* a failed request
ClientResults(bn) ==
    {GetBlockByNumber(bn, NoError, [ZeroResponse EXCEPT !.Block = Block(n)]) :
         n \in BlockNumbers}
    \cup {GetBlockByNumber(bn, NoError, ZeroResponse),
          GetBlockByNumber(bn,
                           TransportFailureError(TransportError("connection refused"),
                                                 FALSE),
                           ZeroResponse)}

\* the characters of the :number parameters
ParamChars == {"0", "1", "9", "a", "x"}

Decimal12345678 == <<"1", "2", "3", "4", "5", "6", "7", "8">>
Hexbc614e == <<"0", "x", "b", "c", "6", "1", "4", "e">>

\* the :number parameters; the empty one is what c.Param gives a context
\* without the parameter
Params ==
    Strings(ParamChars, MaxParamLen) \cup {Latest, Decimal12345678, Hexbc614e}

\* gin's kinds of error; c.Error registers a private one
GinErrorTypeBind == "bind"
GinErrorTypePublic == "public"
GinErrorTypePrivate == "private"

\* c.Error(err)
cError(c, err) ==
    [c EXCEPT !.Errors = Append(@, [Err |-> err, Type |-> GinErrorTypePrivate])]

\* c.JSON(code, obj), and c.AbortWithStatusJSON(code, obj) in a handler that
\* returns after it
cJSON(c, code, obj) ==
    [c EXCEPT !.Status = code, !.Body = obj, !.Writes = @ + 1]

\* c.Writer.Written()
Written(c) == c.Body # NoBody

\* http.StatusText of the statuses the server writes
StatusText(code) ==
    CASE code = 200 -> "OK"
      [] code = 400 -> "Bad Request"
      [] code = 429 -> "Too Many Requests"
      [] code = 500 -> "Internal Server Error"
      [] OTHER -> ""

\* what s.client.GetLatestBlockNumber() can return: a block number, the
\* empty result of a 200 answer without one, or a failed request
LatestResults ==
    {GetLatestBlockNumber(NoError, [ZeroResponse EXCEPT !.Result = n]) :
         n \in BlockNumbers \cup {EmptyString}}
    \cup {GetLatestBlockNumber(
              TransportFailureError(TransportError("connection refused"), FALSE),
              ZeroResponse),
          GetLatestBlockNumber(
              TransportFailureError(TransportError("deadline"), TRUE),
              ZeroResponse)}

\* the routes of setupRoutes that call the client
Routes == {"block", "latest"}

ServerInit ==
    /\ ClientInit
    /\ rpcURL = "https://polygon-rpc.com/"
    /\ timeoutArg = 0
    /\ NoMain
    /\ NoAppErr
    /\ LookupIdle
    /\ NoLogging
    /\ route \in Routes
    /\ blockNumberParam \in (IF route = "block" THEN Params ELSE {EmptyString})
    /\ forwarded = <<>>
    /\ ginCtx = FreshContext
    /\ srvPc = "handler"
    /\ recorded = NotReturned

\* RateLimiter finds the limit reached and aborts the request
RateLimited ==
    /\ srvPc = "handler"
    /\ ginCtx' = cJSON(ginCtx, 429, [error |-> <<"Rate limit exceeded">>])
    /\ srvPc' = "metrics"
    /\ UNCHANGED <<client, envTimeout, envURL, mainPc, appErr, attached, calls,
                   blockNumberParam, forwarded, route, recorded, logging, lookupArg,
                   lookupRet>>

\* (s *EnhancedServer).getLatestBlockNumber serves the request
ServerGetLatestBlockNumber ==
    /\ srvPc = "handler"
    /\ route = "latest"
    /\ \E r \in LatestResults :
          ginCtx' =
              IF r.err # NoError
              THEN cError(ginCtx, Wrap(r.err, ErrorTypeBlockchain,
                                       <<"Failed to get latest block number">>))
              ELSE cJSON(ginCtx, 200, [blockNumber |-> r.str])
    /\ srvPc' = "metrics"
    /\ UNCHANGED <<client, envTimeout, envURL, mainPc, appErr, attached, calls,
                   blockNumberParam, forwarded, route, recorded, logging, lookupArg,
                   lookupRet>>

\* (s *EnhancedServer).getBlockByNumber serves the request; reading
\* block.Number of a nil block panics, and Recovery answers the panic
ServerGetBlockByNumber ==
    /\ srvPc = "handler"
    /\ route = "block"
    /\ ginCtx = FreshContext
    /\ LET formatted == validateAndFormatBlockNumber(blockNumberParam)
       IN  IF formatted.err # NoError
           THEN /\ ginCtx' = cError(ginCtx,
                                    Wrap(formatted.err, ErrTypeValidation,
                                         <<"Invalid block number format">>))
                /\ srvPc' = "metrics"
                /\ UNCHANGED forwarded
           ELSE /\ forwarded' = Append(forwarded, formatted.s)
                /\ \E r \in ClientResults(formatted.s) :
                      IF r.err = NoError /\ r.block.isNil
                      THEN /\ ginCtx' = cJSON(ginCtx, 500,
                                              [error |-> <<"Internal server error">>])
                           /\ srvPc' = "done"
                      ELSE /\ srvPc' = "metrics"
                           /\ ginCtx' =
                                 IF r.err = NoError
                                 THEN cJSON(ginCtx, 200, r.block)
                                 ELSE IF IsType(r.err, ErrTypeNotFound)
                                 THEN cError(ginCtx, r.err)
                                 ELSE cError(ginCtx, WithData(
                                          Wrap(r.err, ErrorTypeBlockchain,
                                               <<"Failed to get block data">>),
                                          "block_number" :> formatted.s))
    /\ UNCHANGED <<client, envTimeout, envURL, mainPc, appErr, attached, calls,
                   blockNumberParam, route, recorded, logging, lookupArg, lookupRet>>

\* MetricsMiddleware, after c.Next(): records the status of c.Writer
MetricsMiddleware ==
    /\ srvPc = "metrics"
    /\ recorded' = StatusText(ginCtx.Status)
    /\ srvPc' = "errors"
    /\ UNCHANGED <<client, envTimeout, envURL, mainPc, appErr, attached, calls,
                   blockNumberParam, forwarded, ginCtx, route, logging, lookupArg,
                   lookupRet>>

\* the status and the message ErrorHandler renders for the last error
ErrorStatus(err) ==
    IF err.Type = GinErrorTypePublic THEN 500
    ELSE IF err.Type = GinErrorTypeBind THEN 400
    ELSE 500

\* ErrorMessage had it shown every error to the client
ErrorMessage_ShowsError(err) == Error(err.Err)

ErrorMessage(err) ==
    IF err.Type = GinErrorTypePublic THEN Error(err.Err)
    ELSE IF err.Type = GinErrorTypeBind THEN <<"Invalid request parameters">>
    ELSE <<"Internal server error">>

\* ErrorHandler, after c.Next(): renders the last error of c.Errors unless a
\* response has been written
ErrorHandler ==
    /\ srvPc = "errors"
    /\ ginCtx' =
          IF Len(ginCtx.Errors) = 0 \/ Written(ginCtx)
          THEN ginCtx
          ELSE LET err == ginCtx.Errors[Len(ginCtx.Errors)]
               IN  cJSON(ginCtx, ErrorStatus(err), [error |-> ErrorMessage(err)])
    /\ srvPc' = "logger"
    /\ UNCHANGED <<client, envTimeout, envURL, mainPc, appErr, attached, calls,
                   blockNumberParam, forwarded, route, recorded, logging, lookupArg,
                   lookupRet>>

\* Logger, after c.Next(): logs the request, which is then over
Logger ==
    /\ srvPc = "logger"
    /\ srvPc' = "done"
    /\ UNCHANGED <<client, envTimeout, envURL, mainPc, appErr, attached, calls,
                   blockNumberParam, forwarded, ginCtx, route, recorded,
                   logging, lookupArg, lookupRet>>

ServerNext ==
    \/ RateLimited
    \/ ServerGetLatestBlockNumber
    \/ ServerGetBlockByNumber
    \/ MetricsMiddleware
    \/ ErrorHandler
    \/ Logger

ServerSpec == ServerInit /\ [][ServerNext]_vars

(***************************************************************************)
(* logger: the global logger and its initialisation                        *)
(***************************************************************************)
\* the level of the core: the switch on the level's name, info when the name
\* is not one of the four
ZapLevel(level) ==
    IF level \in {"debug", "info", "warn", "error"} THEN level ELSE "info"

\* the core Init builds from a Config
InitCore(cfg) ==
    [Level |-> ZapLevel(cfg.Level),
     Sinks |-> IF cfg.OutputPath = "" THEN {"stdout"} ELSE {cfg.OutputPath},
     Encoders |-> IF cfg.JSON THEN {"json"} ELSE {"console"}]

\* the core InitWithRotation builds from a level and a RotationConfig
RotationCore(level, rotationCfg) ==
    [Level |-> ZapLevel(level),
     Sinks |-> {"stdout", rotationCfg.Filename},
     Encoders |-> {"console", "json"}]

DefaultConfig == [Level |-> "info", OutputPath |-> "", JSON |-> FALSE]

DefaultRotationConfig == [Filename |-> "blockchain-client.log"]

\* the configurations the callers pass
Levels == {"debug", "verbose"}

Configs ==
    {[Level |-> l, OutputPath |-> o, JSON |-> FALSE] :
         l \in Levels, o \in {"", "app.log"}}

\* the calls of the package: the function, its arguments, and where the
\* goroutine is in it
Calls ==
    {[fn |-> "Init", cfg |-> c, level |-> c.Level, pc |-> "call", ret |-> NotReturned] :
         c \in Configs}
    \cup {[fn |-> "InitWithRotation", cfg |-> DefaultRotationConfig, level |-> l,
           pc |-> "call", ret |-> NotReturned] : l \in Levels}
    \cup {[fn |-> "GetLogger", cfg |-> DefaultConfig, level |-> DefaultConfig.Level,
           pc |-> "call", ret |-> NotReturned]}

\* the core the function passed to once.Do builds in the call
CoreOf(call) ==
    IF call.fn = "InitWithRotation"
    THEN RotationCore(call.level, call.cfg)
    ELSE InitCore(call.cfg)

LoggerInit ==
    /\ NoClient
    /\ NoInvocation
    /\ NoMain
    /\ NoAppErr
    /\ NoRequest
    /\ LookupIdle
    /\ log = 0
    /\ once = "fresh"
    /\ callers \in [1..MaxCallers -> Calls]
    /\ constructions = <<>>

\* once.Do had it run the function of every call that finds it not done
DoRuns_EveryCall == once # "done"

\* once.Do runs the function it is given: in the first call only
DoRuns == once = "fresh"

\* Init and InitWithRotation call once.Do; so does GetLogger after it read
\* nil. The first call runs its function, a call made while that function
\* runs waits for it to return, a later call returns at once.
OnceDo(p) ==
    /\ callers[p].pc = "once"
    /\ \/ /\ DoRuns
          /\ once' = "running"
          /\ callers' = [callers EXCEPT ![p].pc = "construct"]
       \/ /\ once = "done"
          /\ once' = once
          /\ callers' = [callers EXCEPT ![p].pc = "return"]
    /\ UNCHANGED <<client, envTimeout, envURL, mainPc, appErr, attached, calls,
                   blockNumberParam, forwarded, ginCtx, route, srvPc, recorded,
                   log, constructions, lookupArg, lookupRet>>

\* Init or InitWithRotation is called
CallInit(p) ==
    /\ callers[p].pc = "call"
    /\ callers[p].fn \in {"Init", "InitWithRotation"}
    /\ callers' = [callers EXCEPT ![p].pc = "once"]
    /\ UNCHANGED <<client, envTimeout, envURL, mainPc, appErr, attached, calls,
                   blockNumberParam, forwarded, ginCtx, route, srvPc, recorded,
                   log, once, constructions, lookupArg, lookupRet>>

\* the function given to once.Do: zap.New makes a logger, log is assigned,
\* and once.Do returns
Construct(p) ==
    /\ callers[p].pc = "construct"
    /\ constructions' = Append(constructions,
                               [by |-> p, core |-> CoreOf(callers[p])])
    /\ log' = Len(constructions) + 1
    /\ once' = "done"
    /\ callers' = [callers EXCEPT ![p].pc = "return"]
    /\ UNCHANGED <<client, envTimeout, envURL, mainPc, appErr, attached, calls,
                   blockNumberParam, forwarded, ginCtx, route, srvPc, recorded,
                   lookupArg, lookupRet>>

\* return log
ReturnLog(p) ==
    /\ callers[p].pc = "return"
    /\ callers' = [callers EXCEPT ![p].pc = "done", ![p].ret = log]
    /\ UNCHANGED <<client, envTimeout, envURL, mainPc, appErr, attached, calls,
                   blockNumberParam, forwarded, ginCtx, route, srvPc, recorded,
                   log, once, constructions, lookupArg, lookupRet>>

\* GetLogger reads log with no synchronisation: the read gives nil or, once
\* log is assigned, the logger; on nil GetLogger calls Init(DefaultConfig())
GetLogger(p) ==
    /\ callers[p].pc = "call"
    /\ callers[p].fn = "GetLogger"
    /\ \E read \in {0, log} :
          callers' = [callers EXCEPT ![p].pc =
                         IF read = 0 THEN "once" ELSE "return"]
    /\ UNCHANGED <<client, envTimeout, envURL, mainPc, appErr, attached, calls,
                   blockNumberParam, forwarded, ginCtx, route, srvPc, recorded,
                   log, once, constructions, lookupArg, lookupRet>>

LoggerNext ==
    \E p \in 1..MaxCallers :
        \/ CallInit(p)
        \/ GetLogger(p)
        \/ OnceDo(p)
        \/ Construct(p)
        \/ ReturnLog(p)

LoggerSpec == LoggerInit /\ [][LoggerNext]_vars

(***************************************************************************)
(* Properties                                                              *)
(***************************************************************************)
\* GetLatestBlockNumber or GetBlockByNumber has returned
QueryReturned == pc = "done" /\ op \in {"latest", "block"}

\* the upstream answered HTTP 200 with a body that was read and is a JSON
\* object of the envelope's types
Answered200 ==
    /\ doOut.kind = "response"
    /\ doOut.readOK
    /\ doOut.status = 200
    /\ doOut.body.syntax = "object"

\* the answer carries an error object whose code is a non-zero integer
CarriesErrorCode ==
    /\ doOut.body.error.t = "object"
    /\ doOut.body.error.codeT = "int"
    /\ doOut.body.error.code # 0

\* the answer carries no error object
CarriesNoError == doOut.body.error.t \in {"absent", "null"}

\* the error object is the one of the wire contract: its message, when it
\* has one, is a string
ErrorMessageIsText == doOut.body.error.msgT \in {"absent", "string"}

AnsweredNon200 ==
    /\ doOut.kind = "response"
    /\ doOut.readOK
    /\ doOut.status # 200

\* has the outermost layer of e the status code and the raw body as context
HasStatusContext(e) ==
    /\ e # NoError
    /\ {"status_code", "response"} \subseteq DOMAIN e[1].Data
    /\ e[1].Data["status_code"] = doOut.status
    /\ e[1].Data["response"] = doOut.body

\* C3 as stated: for a status other than 200, the error returned to the
\* caller has kind blockchain and its context includes the status code and
\* the raw body.
C3_Original ==
    (QueryReturned /\ AnsweredNon200)
        => /\ IsType(ret.err, ErrorTypeBlockchain)
           /\ HasStatusContext(ret.err)

\* C3 amended: the error returned to the caller has kind blockchain and an
\* empty context; the error it wraps has kind blockchain and that one's
\* context includes the status code and the raw body.
C3_Non200CauseHasStatus ==
    (QueryReturned /\ AnsweredNon200)
        => /\ IsType(ret.err, ErrorTypeBlockchain)
           /\ ret.err[1].Data = NoData
           /\ IsType(Unwrap(ret.err), ErrorTypeBlockchain)
           /\ HasStatusContext(Unwrap(ret.err))
           /\ Unwrap(Unwrap(ret.err)) = NoError

C3_Witness ==
    /\ QueryReturned
    /\ op = "latest"
    /\ AnsweredNon200
    /\ doOut.status = 500
    /\ HasStatusContext(Unwrap(ret.err))

\* httpClient.Do was aborted by the deadline of doRequest's ctx
DeadlineExpired ==
    doOut.kind = "error" /\ doOut.cause = "context deadline exceeded"

\* httpClient.Do failed because the connection was refused
ConnectionRefused ==
    doOut.kind = "error" /\ doOut.cause = "connection refused"

\* C4 as stated: when the deadline expires before the upstream responds,
\* the returned error has kind timeout.
C4_Original ==
    (QueryReturned /\ DeadlineExpired) => IsType(ret.err, ErrTypeTimeout)

\* C4 amended: when the deadline expires before the upstream responds, the
\* returned error has kind blockchain and the error it wraps has kind
\* timeout; for a refused connection classified before the deadline the
\* returned error has kind blockchain too and the error it wraps has kind
\* internal: the two differ by the kind of the cause, not by their own kind.
C4_TimeoutIsTheCause ==
    QueryReturned =>
        /\ DeadlineExpired =>
              /\ IsType(ret.err, ErrorTypeBlockchain)
              /\ IsType(Unwrap(ret.err), ErrTypeTimeout)
        /\ (ConnectionRefused /\ now < deadline) =>
              /\ IsType(ret.err, ErrorTypeBlockchain)
              /\ IsType(Unwrap(ret.err), ErrTypeInternal)

C4_Witness ==
    /\ QueryReturned
    /\ op = "latest"
    /\ DeadlineExpired
    /\ IsType(Unwrap(ret.err), ErrTypeTimeout)

\* C5 as stated: a query answered HTTP 200 with neither a result nor an
\* error returns a failure, never a success value.
C5_Original ==
    (/\ QueryReturned
     /\ Answered200
     /\ doOut.body.result.t = "absent"
     /\ doOut.body.error.t = "absent")
        => ret.err # NoError

\* C6 as stated: the envelope sent for eth_blockNumber and for net_version
\* has the four keys jsonrpc "2.0", method, params (an empty list) and id 1.
C6_Original ==
    (op \in {"latest", "health"} /\ sent # <<>>)
        => LET body == sent[1].Body
           IN  /\ DOMAIN body = {"jsonrpc", "method", "params", "id"}
               /\ body["jsonrpc"] = "2.0"
               /\ body["method"] = IF op = "latest" THEN "eth_blockNumber"
                                                    ELSE "net_version"
               /\ body["params"] = <<>>
               /\ body["id"] = 1

\* C7: GetLatestBlockNumber answered HTTP 200 with a string result and no
\* error object returns that very string and a nil error, and the one
\* request it sent was a POST with Content-Type application/json.
C7_HexStringPassesThrough ==
    (/\ pc = "done"
     /\ op = "latest"
     /\ Answered200
     /\ doOut.body.result.t = "string"
     /\ CarriesNoError)
        => /\ ret.str = doOut.body.result.v
           /\ ret.err = NoError
           /\ Len(sent) = 1
           /\ sent[1].Method = "POST"
           /\ sent[1].ContentType = "application/json"

C7_Witness ==
    /\ pc = "done"
    /\ op = "latest"
    /\ Answered200
    /\ doOut.body.result = ResultStr(Hex134e82a)
    /\ doOut.body.error.t = "absent"
    /\ ret.str = Hex134e82a
    /\ ret.err = NoError

\* GetBlockByNumber has returned
BlockReturned == pc = "done" /\ op = "block"

\* the error doRequest returned to the query that has returned
DoRequestReturned == DoRequestError(Target(op), doOut, now >= deadline)

\* C8 as stated: when doRequest fails during a block lookup,
\* GetBlockByNumber returns a blockchain-kind error that wraps doRequest's
\* error and whose context carries the requested block identifier.
C8_Original ==
    (BlockReturned /\ DoRequestReturned # NoError)
        => /\ IsType(ret.err, ErrorTypeBlockchain)
           /\ Unwrap(ret.err) = DoRequestReturned
           /\ "block_number" \in DOMAIN ret.err[1].Data

\* C8 amended: the blockchain-kind error wraps doRequest's error and names
\* the requested block identifier in its message; its context is empty.
C8_FailureWrapsCause ==
    (BlockReturned /\ DoRequestReturned # NoError)
        => /\ IsType(ret.err, ErrorTypeBlockchain)
           /\ Unwrap(ret.err) = DoRequestReturned
           /\ ret.err[1].Message =
                  <<"Failed to get block data for block ", blockNumber>>
           /\ ret.err[1].Data = NoData
           /\ ret.block.isNil

C8_Witness ==
    /\ BlockReturned
    /\ blockNumber = Hex134e82a
    /\ DeadlineExpired
    /\ IsType(Unwrap(ret.err), ErrTypeTimeout)
    /\ ret.err[1].Message = <<"Failed to get block data for block ", Hex134e82a>>

\* HealthCheck has returned
HealthReturned == pc = "done" /\ op = "health"

\* the select of doRequestWithContext received what the goroutine sent
SelectReceived == dpc = "finished" /\ resultChan = <<>>

\* net_version answered in time with a non-empty network id and no error
NetVersionSucceeded ==
    /\ SelectReceived
    /\ Answered200
    /\ doOut.body.result.t = "string"
    /\ doOut.body.result.v # EmptyString
    /\ CarriesNoError

\* C9: whenever the net_version call fails, HealthCheck returns
\* healthy=false, "Failed to connect to RPC endpoint" and a non-nil error
\* (ctx.Err() when checkCtx was done first); healthy=false never comes with
\* a nil error.
C9_FailedProbeIsUnhealthy ==
    HealthReturned =>
        /\ ~NetVersionSucceeded =>
              /\ ~ret.healthy
              /\ ret.description = <<"Failed to connect to RPC endpoint">>
              /\ ret.err # NoError
        /\ ~SelectReceived => ret.err \in {ContextCanceled, DeadlineExceeded}
        /\ ~ret.healthy => ret.err # NoError

C9_Witness ==
    /\ HealthReturned
    /\ SelectReceived
    /\ Answered200
    /\ doOut.body.result = ResultStr(Id137)
    /\ doOut.body.error.t = "object"
    /\ doOut.body.error.code = 0
    /\ ~ret.healthy
    /\ ret.err # NoError

\* the description of a chain that has a name, and the generic one
ConnectedTo(chainName, networkId) ==
    <<"Connected to ", chainName, " (Network ID: ", networkId, ")">>
ConnectedToEndpoint(networkId) ==
    <<"Connected to RPC endpoint (Network ID: ", networkId, ")">>

\* C10 as stated: when net_version succeeds, HealthCheck returns
\* healthy=true and a nil error; the description names the chain for an id
\* of the table ("137": Polygon Mainnet) and is the generic one, with the
\* raw id, for every id that is not in the table.
C10_Original ==
    (HealthReturned /\ NetVersionSucceeded)
        => LET id == doOut.body.result.v
           IN  /\ ret.healthy
               /\ ret.err = NoError
               /\ id = Id137 => ret.description = ConnectedTo("Polygon Mainnet", id)
               /\ id \in KnownNetworkIDs =>
                     /\ Len(ret.description) = Len(ConnectedTo("", id))
                     /\ ret.description[2] # ""
                     /\ ret.description[4] = id
               /\ id \notin KnownNetworkIDs =>
                     ret.description = ConnectedToEndpoint(id)

\* C10 amended: the description is the generic one for every id that is
\* neither in the table nor begins with "2018"; an id that is not in the
\* table and begins with "2018" is described as Ethereum Classic.
C10_HealthyDescription ==
    (HealthReturned /\ NetVersionSucceeded)
        => LET id == doOut.body.result.v
           IN  /\ ret.healthy
               /\ ret.err = NoError
               /\ id = Id137 => ret.description = ConnectedTo("Polygon Mainnet", id)
               /\ id \in KnownNetworkIDs =>
                     /\ Len(ret.description) = Len(ConnectedTo("", id))
                     /\ ret.description[2] # ""
                     /\ ret.description[4] = id
               /\ (id \notin KnownNetworkIDs /\ ~HasPrefix(id, Id2018)) =>
                     ret.description = ConnectedToEndpoint(id)
               /\ (id \notin KnownNetworkIDs /\ HasPrefix(id, Id2018)) =>
                     ret.description = ConnectedTo("Ethereum Classic", id)

C10_Witness ==
    /\ HealthReturned
    /\ NetVersionSucceeded
    /\ doOut.body.result.v = Id137
    /\ ret.healthy
    /\ ret.description = ConnectedTo("Polygon Mainnet", Id137)

\* the table of chain names, by network id
TableNames ==
    {<<Id1, "Ethereum Mainnet">>, <<<<"3">>, "Ropsten Testnet">>,
     <<<<"4">>, "Rinkeby Testnet">>, <<<<"5">>, "Goerli Testnet">>,
     <<<<"4", "2">>, "Kovan Testnet">>, <<<<"5", "6">>, "Binance Smart Chain">>,
     <<Id137, "Polygon Mainnet">>,
     <<<<"4", "2", "1", "6", "1">>, "Arbitrum One">>,
     <<<<"1", "0">>, "Optimism">>}

\* C11 as stated: getChainNameFromNetworkID returns the entry's name for
\* each id of the table (1, 3, 4, 5, 42, 56, 137, 42161, 10) and the empty
\* string for every id that is not an entry of the table.
C11_Original ==
    lookupRet # NotReturned =>
    /\ \A e \in TableNames : lookupArg = e[1] => lookupRet = e[2]
    /\ lookupArg \notin KnownNetworkIDs => lookupRet = ""

\* C11 amended: the lookup returns the entry's name for each id of the
\* table, "Ethereum Classic" for every id that is not an entry and begins
\* with "2018", and the empty string for every other id.
C11_StaticLookup ==
    lookupRet # NotReturned =>
    /\ \A e \in TableNames : lookupArg = e[1] => lookupRet = e[2]
    /\ (lookupArg \notin KnownNetworkIDs /\ HasPrefix(lookupArg, Id2018))
          => lookupRet = "Ethereum Classic"
    /\ (lookupArg \notin KnownNetworkIDs /\ ~HasPrefix(lookupArg, Id2018))
          => lookupRet = ""

C11_Witness ==
    /\ lookupArg = Id20180
    /\ lookupRet = "Ethereum Classic"

\* HealthCheck gave up on the upstream because a deadline expired: it
\* returned ctx.Err() of checkCtx, or the timeout error of a doRequest whose
\* ctx aborted httpClient.Do
ProbeTimedOut ==
    \/ ret.err = DeadlineExceeded
    \/ SelectReceived /\ DeadlineExpired /\ IsType(ret.err, ErrTypeTimeout)

\* C12 as stated: the health probe's deadline is 5 units whatever the
\* client's request timeout T: an upstream that answers after a delay below
\* 5 is not given up on, so a probe that reports an expired deadline does so
\* no earlier than 5 units after its call.
C12_Original ==
    (HealthReturned /\ ProbeTimedOut) => now >= checkDeadline

\* C13: every unit of work an operation starts terminates even if the
\* upstream never responds: the spawned goroutine gets to run doRequest, a
\* request handed to the HTTP client (with a deadline the clock reaches) ends
\* when the upstream is silent, and doRequest's outcome is then delivered,
\* also after HealthCheck has returned on deadline or cancellation.
C13_WorkTerminates ==
    /\ (dpc = "spawned") ~> (dpc = "do")
    /\ (dpc = "do" /\ deadline <= MaxClock) ~> (dpc = "classify")
    /\ (dpc = "classify") ~> (dpc = "finished")

C13_Witness ==
    /\ HealthReturned
    /\ ret.err \in {DeadlineExceeded, ContextCanceled}
    /\ DeadlineExpired
    /\ dpc = "finished"
    /\ Len(resultChan) = 1

\* HealthCheck returned because checkCtx expired or was cancelled
ReturnedOnDone ==
    /\ HealthReturned
    /\ ret.err \in {DeadlineExceeded, ContextCanceled}

\* C14 as stated: once HealthCheck has returned because of expiry or
\* cancellation, no outbound request started by it is still in flight
\* (handed to the HTTP client and not yet back) or can still be sent.
C14_Original ==
    ReturnedOnDone => dpc \notin {"spawned", "do"}

C16_TimeoutPositiveAndFixed ==
    /\ [](/\ timeout > 0
          /\ timeoutArg > 0 => timeout = timeoutArg
          /\ timeoutArg <= 0 => timeout = DefaultTimeout
          /\ \A i \in 1 .. Len(sent) : sent[i].URL = rpcURL)
    /\ [][timeout' = timeout /\ rpcURL' = rpcURL]_vars

C16_Witness ==
    /\ timeoutArg = 0
    /\ timeout = DefaultTimeout
    /\ pc = "done"
    /\ Len(sent) = 1
    /\ sent[1].URL = "http://localhost:8545"

\* TIMEOUT_SECONDS is unset, is not a whole number, or is one that is not
\* positive
UnsetOrUnusable ==
    \/ envTimeout = EmptyString
    \/ ~Atoi(envTimeout).ok
    \/ Atoi(envTimeout).n <= 0

\* C17 as stated: at startup a TIMEOUT_SECONDS that is unset, non-positive
\* or not parsable as a whole number yields a client with the 10-second
\* default timeout, and the server goes on to start.
C17_Original ==
    (mainPc # "start" /\ UnsetOrUnusable)
        => (mainPc = "started" /\ timeout = DefaultTimeout)

\* C18: after any sequence of WithData calls on a typed error, the keys of
\* its Data are those it had at first and those of all the maps passed
\* since; a call removes no key and changes neither the error's Type, its
\* Message nor the error it wraps.
C18_ContextIsAdditive ==
    /\ [](DOMAIN appErr[1].Data = attached)
    /\ [][/\ DOMAIN appErr[1].Data \subseteq DOMAIN appErr'[1].Data
          /\ appErr'[1].Type = appErr[1].Type
          /\ appErr'[1].Message = appErr[1].Message
          /\ Unwrap(appErr') = Unwrap(appErr)]_vars

C18_Witness ==
    /\ calls = 2
    /\ DOMAIN appErr[1].Data = DataKeys
    /\ appErr[1].Data["status_code"] = "404"
    /\ appErr[1].Data["block_number"] = "0x1"
    /\ IsType(appErr, ErrTypeInternal)
    /\ Unwrap(appErr) = PlainError(<<"unexpected EOF">>)

\* the handler has served the request
Served == ginCtx # FreshContext

\* the handler called s.client.GetBlockByNumber
Forwarded == Served /\ Len(forwarded) = 1

\* C19 as stated: for every identifier other than "latest" that
\* validateAndFormatBlockNumber accepts, the string forwarded to
\* GetBlockByNumber begins with "0x"; "latest" is forwarded unchanged.
C19_Original ==
    /\ (Forwarded /\ blockNumberParam # Latest)
          => HasPrefix(forwarded[1], <<"0", "x">>)
    /\ (Served /\ blockNumberParam = Latest) => forwarded = <<Latest>>

\* the digits of hexadecimal notation, by value
HexChars ==
    <<"0", "1", "2", "3", "4", "5", "6", "7", "8", "9", "a", "b", "c", "d",
      "e", "f">>

\* the hexadecimal notation of a natural number, without leading zeros
RECURSIVE HexDigits(_)
HexDigits(n) ==
    IF n < Len(HexChars) THEN <<HexChars[n + 1]>>
    ELSE HexDigits(n \div Len(HexChars)) \o <<HexChars[(n % Len(HexChars)) + 1]>>

\* a non-empty string of decimal digits
IsDecimal(s) == s # <<>> /\ \A i \in 1 .. Len(s) : s[i] \in DigitChars

\* "0x" followed by at least one hexadecimal digit
IsPrefixedHex(s) ==
    /\ Len(s) > 2
    /\ HasPrefix(s, <<"0", "x">>)
    /\ \A i \in 3 .. Len(s) : \E d \in 1 .. Len(HexChars) : s[i] = HexChars[d]

\* C20 as stated: a block number supplied in decimal is forwarded as the
\* 0x-prefixed hexadecimal encoding of its value (12345678 as 0xbc614e),
\* and a 0x-prefixed hexadecimal input is forwarded unchanged.
C20_Original ==
    /\ (Served /\ IsDecimal(blockNumberParam))
          => forwarded = << <<"0", "x">> \o HexDigits(DecimalValue(blockNumberParam)) >>
    /\ (Served /\ blockNumberParam = Decimal12345678) => forwarded = <<Hexbc614e>>
    /\ (Served /\ IsPrefixedHex(blockNumberParam))
          => forwarded = <<blockNumberParam>>

\* the request is over and its handler had registered an error
HandlerFailed == srvPc = "done" /\ Len(ginCtx.Errors) > 0

\* the error the handler registered last
LastError == ginCtx.Errors[Len(ginCtx.Errors)].Err

\* the statuses the error documentation gives the kinds of error
DocumentedStatus(errType) ==
    CASE errType = ErrTypeValidation -> {400}
      [] errType = ErrTypeNotFound -> {404}
      [] errType = ErrorTypeBlockchain -> {503}
      [] errType = ErrTypeInternal -> {500}
      [] errType = ErrTypeTimeout -> {504, 408}
      [] OTHER -> {}

\* C21 as stated: the status sent for a request whose handler failed with a
\* typed error is the one of the error's kind: 400 for validation, 404 for
\* not-found, 503 for blockchain, 500 for internal, 504 or 408 for timeout.
C21_Original ==
    (HandlerFailed /\ IsAppError(LastError))
        => ginCtx.Status \in DocumentedStatus(LastError[1].Type)

\* the bodies of the error responses, which are fixed texts
FixedErrorBodies ==
    {[error |-> <<"Internal server error">>],
     [error |-> <<"Rate limit exceeded">>]}

\* C22: a request whose handler failed is answered exactly once, with a 4xx
\* or 5xx status, and every error response carries one of the fixed bodies:
\* nothing of the upstream's text, of the wrapped cause or of the error's
\* context reaches the client, so failing runs that differ only in those
\* are answered identically.
C22_ErrorResponseIsOpaque ==
    /\ HandlerFailed =>
          /\ ginCtx.Writes = 1
          /\ ginCtx.Status \in 400..599
          /\ ginCtx.Body = [error |-> <<"Internal server error">>]
    /\ (srvPc = "done" /\ ginCtx.Status >= 400) => ginCtx.Body \in FixedErrorBodies

\* a failed request whose error wraps a cause and carries context
C22_Witness ==
    /\ HandlerFailed
    /\ Len(LastError) > 2
    /\ LastError[1].Data # NoData
    /\ ginCtx.Writes = 1

\* the answer parses into the generic error envelope with a non-zero code
ParsesAsRPCError ==
    /\ UnmarshalRPCErrorResponse(doOut.body).ok
    /\ UnmarshalRPCErrorResponse(doOut.body).Code # 0

\* e is the blockchain-kind error that carries the code and the message of
\* the answer's error object in its context
IsEmbeddedRPCError(e) ==
    /\ IsType(e, ErrorTypeBlockchain)
    /\ {"error_code", "error_message"} \subseteq DOMAIN e[1].Data
    /\ e[1].Data["error_code"] = doOut.body.error.code
    /\ e[1].Data["error_message"] = doOut.body.error.msg

\* C23 as stated: for every HTTP-200 body that parses into the generic error
\* envelope with a non-zero code, doRequest's outcome is a blockchain-kind
\* error carrying that code and message in its context, whether or not the
\* body decodes into the caller's target shape.
C23_Original ==
    (QueryReturned /\ Answered200 /\ ParsesAsRPCError)
        => IsEmbeddedRPCError(Unwrap(ret.err))

\* the upstream answered HTTP 200 with a body that was read and does not
\* decode into the holder of the query
DecodeFailed ==
    /\ doOut.kind = "response"
    /\ doOut.readOK
    /\ doOut.status = 200
    /\ ~Unmarshal(Target(op), doOut.body).ok

\* a layer of e keeps the raw body in its context, under the key doRequest
\* uses for it
RetainsBody(e) ==
    \E i \in 1..Len(e) :
        /\ "response" \in DOMAIN e[i].Data
        /\ e[i].Data["response"] = doOut.body

\* C24 as stated: when an HTTP-200 body cannot be decoded into the caller's
\* target shape, doRequest returns an internal-kind error that wraps the
\* decode error and whose context retains the raw body text.
C24_Original ==
    (QueryReturned /\ DecodeFailed)
        => /\ IsType(Unwrap(ret.err), ErrTypeInternal)
           /\ Unwrap(Unwrap(ret.err)) # NoError
           /\ RetainsBody(ret.err)

\* C25 as stated: a transport failure with a cause other than the deadline
\* (a refused connection) is classified internal, never timeout, in every
\* interleaving, the one where the deadline lapses between the failure of
\* the call and the classifier's look at the deadline state included.
C25_Original ==
    (QueryReturned /\ ConnectionRefused)
        => /\ IsType(Unwrap(ret.err), ErrTypeInternal)
           /\ ~IsType(Unwrap(ret.err), ErrTypeTimeout)

\* the kinds of the taxonomy that the client raises
ErrorKinds ==
    {ErrTypeInternal, ErrTypeTimeout, ErrTypeNotFound, ErrorTypeBlockchain,
     ErrTypeValidation}

\* C26 as stated: every non-nil error HealthCheck returns is a typed error
\* with a kind of the taxonomy, and the error it returns when the probe's
\* deadline expired or the caller's context was cancelled has kind timeout.
C26_Original ==
    (HealthReturned /\ ret.err # NoError)
        => /\ IsAppError(ret.err)
           /\ ret.err[1].Type \in ErrorKinds
           /\ ~SelectReceived => IsType(ret.err, ErrTypeTimeout)

\* a non-empty string of hexadecimal digits, without the prefix
IsBareHex(s) ==
    /\ s # <<>>
    /\ \A i \in 1 .. Len(s) : \E d \in 1 .. Len(HexChars) : s[i] = HexChars[d]

\* neither "latest" nor a decimal or hexadecimal numeral: a string with a
\* character that is no hexadecimal digit, the bare prefix "0x", the empty
\* string
Malformed(s) ==
    /\ s # Latest
    /\ ~IsDecimal(s)
    /\ ~IsPrefixedHex(s)
    /\ ~IsBareHex(s)

\* C27 as stated: for an identifier that is neither "latest" nor a decimal
\* or hexadecimal numeral, the handler makes no call to GetBlockByNumber and,
\* unless the rate limiter answered in its place, registers a
\* validation-kind error.
C27_Original ==
    (Served /\ route = "block" /\ Malformed(blockNumberParam))
        => /\ forwarded = <<>>
           /\ ginCtx.Status # 429
                 => /\ Len(ginCtx.Errors) > 0
                    /\ IsType(LastError, ErrTypeValidation)

\* the call that entered once.Do first: the one whose function ran
FirstCall == callers[constructions[1].by]

\* C28: under every interleaving of concurrent Init, InitWithRotation and
\* GetLogger calls, zap.New is called at most once and has been called once
\* any call has returned; the logger has the core of the call that entered
\* once.Do first; every call returns that one logger, which is not nil, and
\* log keeps pointing to it.
C28_LoggerBuiltOnce ==
    /\ Len(constructions) <= 1
    /\ log \in {0, 1}
    /\ log = Len(constructions)
    /\ \A p \in DOMAIN callers :
          callers[p].pc = "done"
              => /\ callers[p].ret = 1
                 /\ log = 1
                 /\ constructions[1].core = CoreOf(FirstCall)

\* three calls have returned, the first of them an InitWithRotation, while
\* another call passed another configuration and GetLogger read nil
C28_Witness ==
    /\ \A p \in DOMAIN callers : callers[p].pc = "done" /\ callers[p].ret = log
    /\ \E p, q, r \in DOMAIN callers :
          /\ callers[p].fn = "InitWithRotation"
          /\ constructions[1].by = p
          /\ callers[q].fn = "Init"
          /\ CoreOf(callers[q]) # constructions[1].core
          /\ callers[r].fn = "GetLogger"

\* C29: whatever the upstream does, GetBlockByNumber returns a block and a
\* nil error, or a nil block and an error, never both and never neither;
\* GetLatestBlockNumber returns the empty string with every error. The
\* handler reads block.Number only after a nil error, so of a block.
C29_BlockOrError ==
    /\ BlockReturned => (ret.block.isNil <=> ret.err # NoError)
    /\ (pc = "done" /\ op = "latest" /\ ret.err # NoError) => ret.str = EmptyString

\* a block lookup answered 200 with a body that does not decode has returned
\* a nil block and an error
C29_Witness ==
    /\ BlockReturned
    /\ DecodeFailed
    /\ ret.block.isNil
    /\ ret.err # NoError

\* C30 as stated: for every request the chain has handled, the status
\* MetricsMiddleware recorded is the status sent to the client, requests
\* whose handler only registered an error for ErrorHandler included.
C30_Original ==
    (srvPc = "done" /\ recorded # NotReturned)
        => recorded = StatusText(ginCtx.Status)

====
